---------------------------- MODULE Spec2Model ----------------------------
(***************************************************************************)
(* Clip acquisition and curation engine of twitch_compyle:                 *)
(*   - the diversity reorderer  (compyle/actions/edit.py: ne, dfs,         *)
(*     rearrange),                                                         *)
(*   - the pagination walk and curation loop (TwitchAPI.__parse_clips,     *)
(*     TwitchApi.get_game_clips, the request decorator),                   *)
(*   - the request executor (Router.request, Router.__request_with_retry). *)
(* Each component has its own specification over the shared variables.     *)
(***************************************************************************)
EXTENDS Integers, Sequences, FiniteSets, TLC

VARIABLES
    \* ---- reorderer (edit.py) ----
    data,       \* the list dfs mutates in place
    input,      \* the list as it was handed to dfs / rearrange
    stack,      \* call stack of dfs: frames [i, j, pc], top is the last element
    ret,        \* value returned by the dfs call that returned last
    r_pc,       \* "idle" | "run" | "done"
    entry,      \* "none" | "dfs" | "rearrange"
    start,      \* index i of the outermost dfs call
    result,     \* what the outermost dfs call returned: "none" | "True" | "False"
    \* ---- request executor (routing.py / common.py Router.request) ----
    x_impl,        \* "routing" (routing.py) | "common" (common.py)
    x_script,      \* the statuses the server answers, call by call (0: no answer)
    x_pc,          \* "idle" | "loop" | "done"
    x_calls,       \* HTTP calls issued so far
    x_sleeps,      \* the delays slept so far, in tenths of a second
    x_backoff,     \* local `backoff` of Router.request, in tenths of a second
    x_max_retries, \* local `max_retries` of Router.request
    x_status,      \* status of the response held in `response` (0: none)
    x_outcome,     \* "none" | "response" | "HTTPError" | "ConnectionError"
                   \* | "UnboundLocalError"
    x_reset_read,  \* the Ratelimit-Reset header has been read
    \* ---- pagination walk and curation loop ----
    w_impl,        \* "controllers" (TwitchAPI.__parse_clips) | "services"
                   \* (TwitchApi.get_game_clips) | "wrapper" (request._wrapper)
    w_pages,       \* the `pages` argument of __parse_clips
    w_pc,          \* "loop" | "done"
    clips,         \* the list of accepted clips (`clips`; `result` in the wrapper)
    w_after,       \* params["after"]; NoCursor while the key is not set
    w_iter,        \* iterations of the page loop started so far
    w_requests,    \* page requests issued so far
    w_sent_after,  \* the `after` value carried by the last page request
    w_last,        \* the last page response, summarised: [empty, cursor, lead]
    w_outcome,     \* "none" | "returned" | "HTTPError" | "KeyError" | "TypeError"
    w_unsorted,    \* the list `clips` as the page loop left it, before the sort
    \* ---- record filter of __parse_clips under a configured whitelist ----
    f_impl,        \* "controllers" (__parse_clips) | "services" (get_game_clips)
    f_whitelist,   \* the `whitelist` of broadcaster ids
    f_blacklist,   \* the `blacklist` of broadcaster ids
    f_clips,       \* the list `clips` of the records accepted so far
    f_seen,        \* ids of the records the loop has examined
    f_pc,          \* "loop" | "break" | "raised"
    f_last,        \* the record examined last and what became of it
    \* ---- route registry and endpoints (routing.py / common.py) ----
    g_impl,        \* "routing" (routing.py) | "common" (common.py) | "legacy"
                   \* (twitch_compyle/services/routing.py) | "urls" (urls.py)
    router_routes, \* Router.__routes of the router shared by every Routable
    g_clients,     \* the API clients constructed so far, in order
    g_pc,          \* "idle" | "built": build_url has been called
    g_name,        \* the namespace of the last build_url call
    g_endpoint,    \* the endpoint that namespace resolved to at the call
    g_query,       \* the **query of the last build_url call
    g_outcome,     \* "none" | "url" | "ValueError"
    g_url,         \* the URL returned last: [base_url, slug, query]
    g_stripped,    \* Router.route has cut a trailing slash off that URL
    g_appended,    \* Router.route has put a trailing slash after that URL
    g_trailing_slash, \* the trailing_slash argument the Router was constructed with
    g_new,         \* the last Endpoint(...) call: its arguments and what came of it
    g_calls        \* HTTP calls issued by Router.request

r_vars == <<data, input, stack, ret, r_pc, entry, start, result>>

(***************************************************************************)
(* Bounds of the reorderer model.                                          *)
(***************************************************************************)
MaxLen == 4
NumKeys == 3
SmallMaxLength == 3

\* default of rearrange's max_length parameter
max_length == 15

Keys == 1..NumKeys

\* a clip seen by the reorderer: its identity and the value under `key`
Elem(p, k) == [id |-> p, k |-> k]

RECURSIVE KeySeqs(_)
KeySeqs(n) ==
    IF n = 0 THEN {<<>>}
    ELSE {Append(s, k) : s \in KeySeqs(n - 1), k \in Keys}

\* every list of at most MaxLen clips; the clip at (0-based) index p has id p
Inputs ==
    UNION {{[p \in 1..n |-> Elem(p - 1, ks[p])] : ks \in KeySeqs(n)} : n \in 0..MaxLen}

\* the list of edit.py line 407 (`expected false`): five clips of one
\* broadcaster followed by six of another
ScenarioB == [p \in 1..11 |-> Elem(p - 1, IF p <= 5 THEN 1 ELSE 6)]

\* Python's data[i] for a 0-based index i
At(d, i) == d[i + 1]

\* a faulty swap that copies data[j] over data[i] (sensitivity of C35)
SwapOverwriting(d, i, j) == [d EXCEPT ![i + 1] = d[j + 1]]

\* data[i], data[j] = data[j], data[i]
Swap(d, i, j) ==
    [p \in 1..Len(d) |->
        IF p = i + 1 THEN d[j + 1] ELSE IF p = j + 1 THEN d[i + 1] ELSE d[p]]

\* a faulty loop that tries the same j again (sensitivity of C38)
NextJSame(j) == j

\* edit.py line 322, `for j in range(i + 1, len(data))`: the j after this one
NextJ(j) == j + 1

\* ne(data, key, i, j): data[i][key] != data[j][key]
ne(d, i, j) == At(d, i).k # At(d, j).k

\* a faulty in-place test that always keeps the element (sensitivity of C19)
InPlaceAlways(d, i) == TRUE

\* edit.py line 318 as written: the in-place test compares index i with itself
InPlaceTest(d, i) == i = 0 \/ ne(d, i, i)

\* edit.py line 323: the guard of a swap of position j into position i
SwapTest(d, i, j) == i = 0 \/ ne(d, i - 1, j)

\* a faulty undo that leaves the swap in place (sensitivity of C15)
UndoSkipped(d, i, j) == d

\* edit.py line 328: the swap is undone after a failed recursive call
Undo(d, i, j) == Swap(d, i, j)

\* edit.py line 315: the base case of dfs
BaseCase(d, i) == Len(d) < 3 \/ i = Len(d)

Frame(i) == [i |-> i, j |-> i + 1, pc |-> "enter"]

Top == stack[Len(stack)]
Pop == SubSeq(stack, 1, Len(stack) - 1)
SetTop(f) == [stack EXCEPT ![Len(stack)] = f]

\* the returned value reaches the caller; the outermost return ends the run
Return(v) ==
    /\ ret' = v
    /\ stack' = Pop
    /\ IF Len(stack) = 1
       THEN r_pc' = "done" /\ result' = IF v THEN "True" ELSE "False"
       ELSE UNCHANGED <<r_pc, result>>

RInit ==
    /\ data \in Inputs \cup {ScenarioB}
    /\ input = data
    /\ stack = <<>>
    /\ ret = FALSE
    /\ r_pc = "idle"
    /\ entry = "none"
    /\ start = 0
    /\ result = "none"

\* a direct call dfs(data, key, i) with i = 0 (the default) or i = 1; the
\* eleven-clip list is searched with its first element kept in place
CallDfs(i) ==
    /\ r_pc = "idle"
    /\ i = 0 => data \in Inputs
    /\ r_pc' = "run"
    /\ entry' = "dfs"
    /\ start' = i
    /\ stack' = <<Frame(i)>>
    /\ UNCHANGED <<data, input, ret, result>>

\* rearrange(clips, key, ml): dfs from index 1 when the list is short enough,
\* the list is returned as it is otherwise (the fallback is commented out)
CallRearrange(ml) ==
    /\ r_pc = "idle"
    /\ entry' = "rearrange"
    /\ start' = 1
    /\ IF Len(data) < ml
       THEN r_pc' = "run" /\ stack' = <<Frame(1)>>
       ELSE r_pc' = "done" /\ stack' = <<>>
    /\ UNCHANGED result
    /\ UNCHANGED <<data, input, ret>>

\* entry of a dfs call: base case, else the in-place attempt or the loop
DfsEnter ==
    /\ r_pc = "run"
    /\ Top.pc = "enter"
    /\ IF BaseCase(data, Top.i)
       THEN Return(TRUE) /\ UNCHANGED data
       ELSE /\ IF InPlaceTest(data, Top.i)
               THEN stack' = Append(SetTop([Top EXCEPT !.pc = "inplace"]), Frame(Top.i + 1))
               ELSE stack' = SetTop([Top EXCEPT !.pc = "loop"])
            /\ UNCHANGED <<data, ret, r_pc, result>>
    /\ UNCHANGED <<input, entry, start>>

\* the recursive call of line 319 has returned
DfsAfterInPlace ==
    /\ r_pc = "run"
    /\ Top.pc = "inplace"
    /\ IF ret
       THEN Return(TRUE)
       ELSE /\ stack' = SetTop([Top EXCEPT !.pc = "loop"])
            /\ UNCHANGED <<ret, r_pc, result>>
    /\ UNCHANGED <<data, input, entry, start>>

\* one iteration of `for j in range(i + 1, len(data))` up to the recursive call
DfsLoop ==
    /\ r_pc = "run"
    /\ Top.pc = "loop"
    /\ IF Top.j >= Len(data)
       THEN Return(FALSE) /\ UNCHANGED data
       ELSE IF SwapTest(data, Top.i, Top.j)
            THEN /\ data' = Swap(data, Top.i, Top.j)
                 /\ stack' = Append(SetTop([Top EXCEPT !.pc = "swapped"]), Frame(Top.i + 1))
                 /\ UNCHANGED <<ret, r_pc, result>>
            ELSE /\ stack' = SetTop([Top EXCEPT !.j = NextJ(Top.j)])
                 /\ UNCHANGED <<data, ret, r_pc, result>>
    /\ UNCHANGED <<input, entry, start>>

\* the recursive call of line 326 has returned: success, or undo the swap
DfsAfterSwap ==
    /\ r_pc = "run"
    /\ Top.pc = "swapped"
    /\ IF ret
       THEN Return(TRUE) /\ UNCHANGED data
       ELSE /\ data' = Undo(data, Top.i, Top.j)
            /\ stack' = SetTop([Top EXCEPT !.pc = "loop", !.j = NextJ(Top.j)])
            /\ UNCHANGED <<ret, r_pc, result>>
    /\ UNCHANGED <<input, entry, start>>

\* the reorderer when another component is the one under study: never called
RParked ==
    /\ data = <<>>
    /\ input = <<>>
    /\ stack = <<>>
    /\ ret = FALSE
    /\ r_pc = "idle"
    /\ entry = "none"
    /\ start = 0
    /\ result = "none"

(***************************************************************************)
(* Request executor: Router.request of routing.py (with its retry loop)    *)
(* and Router.request of common.py (with __request_with_retry).            *)
(***************************************************************************)
x_vars == <<x_impl, x_script, x_pc, x_calls, x_sleeps, x_backoff, x_max_retries,
            x_status, x_outcome, x_reset_read>>

\* number of answers the server has ready for one request
ScriptLen == 5

\* routing.py line 354 (0.5 s) and line 355
backoff == 5
max_retries == 3

\* common.py line 245: the default backoff_jitter (0.5 s), in tenths of a second
jitter == 5

\* 0 stands for a call that gets no answer (connection refused, timeout);
\* 600 is a status above the registered classes, which the HTTP library accepts
Statuses == {0, 200, 404, 429, 500, 503, 600}

IsNetworkFailure(st) == st = 0

RECURSIVE Scripts(_)
Scripts(n) ==
    IF n = 0 THEN {<<>>}
    ELSE {Append(s, st) : s \in Scripts(n - 1), st \in Statuses}

\* a faulty status test that lets client errors through (sensitivity of C25)
RaiseForStatusServerOnly(st) == 500 <= st /\ st < 600

\* requests.Response.raise_for_status: HTTPError for 4xx and 5xx
RaiseForStatus(st) == 400 <= st /\ st < 600

\* status.HTTP_503_SERVICE_UNAVAILABLE, status.HTTP_429_TOO_MANY_REQUESTS
IsServiceUnavailable(st) == st = 503
IsTooManyRequests(st) == st = 429

\* a faulty loop condition, without the budget test (sensitivity of C7)
RetryConditionNoBudget(st, left) == st >= 500

\* routing.py line 357: the condition of the retry loop
RetryCondition(st, left) == st >= 500 /\ left > 0

\* a faulty delay update that adds the first delay instead of doubling
\* (sensitivity of C36)
NextBackoffLinear(b) == b + backoff

\* routing.py line 380: backoff *= 2
NextBackoff(b) == b * 2

\* the answer to the next HTTP call
NextAnswer == x_script[x_calls + 1]

\* Router.__execute_request (routing.py 303-318): the call, raise_for_status, and
\* the finally block, which reads response.status_code even when the call
\* raised before `response` was bound
ExecuteRequestOutcome(st) ==
    IF IsNetworkFailure(st) THEN "UnboundLocalError"
    ELSE IF RaiseForStatus(st) THEN "HTTPError"
    ELSE "response"

\* Router.__request_with_retry (common.py 282-294): the Retry strategy is mounted
\* on a session the call does not use; requests.<method> is called once
RequestWithRetryOutcome(st) ==
    IF IsNetworkFailure(st) THEN "ConnectionError"
    ELSE IF RaiseForStatus(st) THEN "HTTPError"
    ELSE "response"

XInit ==
    /\ x_impl \in {"routing", "common"}
    /\ x_script \in Scripts(ScriptLen)
    /\ x_pc = "idle"
    /\ x_calls = 0
    /\ x_sleeps = <<>>
    /\ x_backoff = backoff
    /\ x_max_retries = max_retries
    /\ x_status = 0
    /\ x_outcome = "none"
    /\ x_reset_read = FALSE

\* routing.py 351-355: the first __execute_request; an exception ends the call
RoutingRequest ==
    /\ x_impl = "routing"
    /\ x_pc = "idle"
    /\ x_calls < Len(x_script)
    /\ x_calls' = x_calls + 1
    /\ x_status' = NextAnswer
    /\ IF ExecuteRequestOutcome(NextAnswer) = "response"
       THEN x_pc' = "loop" /\ UNCHANGED x_outcome
       ELSE x_pc' = "done" /\ x_outcome' = ExecuteRequestOutcome(NextAnswer)
    /\ UNCHANGED <<x_impl, x_script, x_sleeps, x_backoff, x_max_retries, x_reset_read>>

\* routing.py 357-383: one evaluation of the while condition and of its body
RoutingRetryLoop ==
    /\ x_impl = "routing"
    /\ x_pc = "loop"
    /\ IF ~RetryCondition(x_status, x_max_retries)
       THEN \* line 383: the response is returned
            /\ x_pc' = "done"
            /\ x_outcome' = "response"
            /\ UNCHANGED <<x_calls, x_sleeps, x_backoff, x_max_retries, x_status, x_reset_read>>
       ELSE IF IsServiceUnavailable(x_status)
       THEN \* lines 361-366: a log line only
            UNCHANGED <<x_pc, x_outcome, x_calls, x_sleeps, x_backoff, x_max_retries,
                        x_status, x_reset_read>>
       ELSE IF IsTooManyRequests(x_status)
       THEN \* lines 367-375: the reset header is read and logged
            /\ x_reset_read' = TRUE
            /\ UNCHANGED <<x_pc, x_outcome, x_calls, x_sleeps, x_backoff, x_max_retries,
                           x_status>>
       ELSE \* lines 376-381: sleep, call again, double the delay
            /\ x_calls < Len(x_script)
            /\ x_sleeps' = Append(x_sleeps, x_backoff)
            /\ x_calls' = x_calls + 1
            /\ x_status' = NextAnswer
            /\ IF ExecuteRequestOutcome(NextAnswer) = "response"
               THEN /\ x_backoff' = NextBackoff(x_backoff)
                    /\ x_max_retries' = x_max_retries - 1
                    /\ UNCHANGED <<x_pc, x_outcome>>
               ELSE /\ x_pc' = "done"
                    /\ x_outcome' = ExecuteRequestOutcome(NextAnswer)
                    /\ UNCHANGED <<x_backoff, x_max_retries>>
            /\ UNCHANGED x_reset_read
    /\ UNCHANGED <<x_impl, x_script>>

\* common.py 326-336: Router.request, one call through __request_with_retry
CommonRequest ==
    /\ x_impl = "common"
    /\ x_pc = "idle"
    /\ x_calls < Len(x_script)
    /\ x_calls' = x_calls + 1
    /\ x_status' = NextAnswer
    /\ x_pc' = "done"
    /\ x_outcome' = RequestWithRetryOutcome(NextAnswer)
    /\ UNCHANGED <<x_impl, x_script, x_sleeps, x_backoff, x_max_retries, x_reset_read>>

\* the executor when another component is the one under study: never called
XParked ==
    /\ x_impl = "routing"
    /\ x_script = <<>>
    /\ x_pc = "idle"
    /\ x_calls = 0
    /\ x_sleeps = <<>>
    /\ x_backoff = backoff
    /\ x_max_retries = max_retries
    /\ x_status = 0
    /\ x_outcome = "none"
    /\ x_reset_read = FALSE

(***************************************************************************)
(* Pagination walk and curation loop:                                      *)
(*   controllers/twitch.py TwitchAPI.__parse_clips   (lines 199-269)       *)
(*   services/twitch.py    TwitchApi.get_game_clips  (lines 151-228)       *)
(*   twitch_compyle/services/request.py _wrapper     (lines 45-72)         *)
(***************************************************************************)
w_vars == <<w_impl, w_pages, w_pc, clips, w_after, w_iter, w_requests,
            w_sent_after, w_last, w_outcome, w_unsorted>>

\* Bounds of the walk model.  max_clips, minimum_clips and maximum_page stand
\* for the source's 20, 20 and 10 (controllers/twitch.py:212, services/
\* twitch.py:179 and :178), scaled down so that the limits are reached.
MaxPageLen == 2
MaxPages == 3
max_clips == 2
minimum_clips == 2
maximum_page == 3
MaxWrapperRequests == 3

\* controllers/twitch.py lines 211-217
min_views == 50
min_duration == 5
max_duration == 40
language == "fr"
whitelist == {}
blacklist == {}

\* services/twitch.py line 177
minimum_views == 50

\* vod_offset of a clip whose source video is gone (JSON null)
None == -1

NoCursor == "<unset>"
\* "pagination": {} and "pagination": null in a response
AbsentCursor == "<absent>"
NullPagination == "<null>"
Cursors == {"c1", "c2"}

Clip(id, b, v, off, dur, views, lang, created) ==
    [id |-> id, broadcaster_id |-> b, video_id |-> v, vod_offset |-> off,
     duration |-> dur, view_count |-> views, language |-> lang,
     created_at |-> created, urls |-> FALSE]

\* the clips the API may return
ClipUniverse ==
    { Clip("a", "b1", "v1", 10, 5, 90, "fr", 2),
      Clip("b", "b2", "v1", 12, 5, 90, "fr", 1),
      Clip("c", "b1", "v1", 17, 5, 70, "fr", 1),
      Clip("d", "b2", "v2", 10, 30, 70, "fr", 1),
      Clip("e", "b3", "v2", 90, 8, 40, "fr", 1),
      Clip("f", "b3", "", None, 40, 60, "en", 1) }

\* the wrapper never reads a record: one clip is enough to tell pages apart
WrapperUniverse == {c \in ClipUniverse : c.id = "a"}

\* every list of at most n records of U
RECURSIVE PagesOf(_, _)
PagesOf(U, n) ==
    IF n = 0 THEN {<<>>}
    ELSE LET shorter == PagesOf(U, n - 1) IN
         shorter \cup {Append(pg, c) : pg \in shorter, c \in U}

\* a page holds a clip once
Distinct(pg) == \A m, n \in 1..Len(pg) : m # n => pg[m] # pg[n]

\* what one page request can produce: a JSON page, or an exception of the
\* executor (kind "raise")
Responses(U) ==
    {[kind |-> "ok", data |-> pg, cursor |-> cu] :
        pg \in {q \in PagesOf(U, MaxPageLen) : Distinct(q)},
        cu \in Cursors \cup {"", AbsentCursor, NullPagination}}
    \cup {[kind |-> "raise", data |-> <<>>, cursor |-> ""]}

Max(a, b) == IF a >= b THEN a ELSE b
Abs(a) == IF a >= 0 THEN a ELSE 0 - a

\* `not response["pagination"]["cursor"]`: raises when the key is missing
CursorRaises(cu) == cu \in {AbsentCursor, NullPagination}
CursorFalsy(cu) == cu = ""

\* controllers/twitch.py lines 236-246
\* a faulty filter without the lower bound on the duration (sensitivity of C21)
PassesFilterNoMinimum(clip, wl) ==
    \/ clip.broadcaster_id \in wl
    \/ /\ clip.video_id # ""
       /\ clip.vod_offset # None
       /\ (language = "" \/ clip.language = language)
       /\ clip.duration < max_duration

PassesFilter(clip, wl) ==
    \/ clip.broadcaster_id \in wl
    \/ /\ clip.video_id # ""
       /\ clip.vod_offset # None
       /\ (language = "" \/ clip.language = language)
       /\ min_duration <= clip.duration
       /\ clip.duration < max_duration

\* services/twitch.py lines 190-195
PassesFilterServices(clip) ==
    /\ clip.video_id # ""
    /\ clip.vod_offset # None
    /\ clip.language = "fr"
    /\ clip.duration < 40

\* a faulty window test, with a strict comparison (sensitivity of C4)
SameMomentStrict(x, y) ==
    /\ x.video_id = y.video_id
    /\ Abs(x.vod_offset - y.vod_offset) < Max(x.duration, y.duration)

\* controllers/twitch.py lines 249-250: the two clips show the same moment
SameMoment(x, y) ==
    /\ x.video_id = y.video_id
    /\ Abs(x.vod_offset - y.vod_offset) <= Max(x.duration, y.duration)

\* abs(None - n) raises TypeError; it is evaluated only for equal video ids
ComparisonRaises(x, y) ==
    /\ x.video_id = y.video_id
    /\ (x.vod_offset = None \/ y.vod_offset = None)

\* `any(... for c in clips)`: "raise", "dup" or "new", scanning clips in order
RECURSIVE DedupScan(_, _, _)
DedupScan(clip, acc, m) ==
    IF m > Len(acc) THEN "new"
    ELSE IF ComparisonRaises(clip, acc[m]) THEN "raise"
    ELSE IF SameMoment(clip, acc[m]) THEN "dup"
    ELSE DedupScan(clip, acc, m + 1)

\* lines 254-255: clip_url and broadcaster_url are added to the clip
Annotate(clip) == [clip EXCEPT !.urls = TRUE]

\* line 261: `if max_clips and len(clips) == max_clips: break`
LimitReached(acc) == max_clips # 0 /\ Len(acc) = max_clips

\* a faulty loop body that lets the whitelist win over the blacklist
\* (sensitivity of C22)
RecordDecisionWhitelistFirst(clip, acc, wl, bl) ==
    IF clip.broadcaster_id \in wl THEN "accept"
    ELSE IF clip.broadcaster_id \in bl THEN "blacklisted"
    ELSE "filtered"

\* controllers/twitch.py lines 228-251: what the loop body does with one record,
\* given the accepted clips and the two lists of broadcaster ids
RecordDecision(clip, acc, wl, bl) ==
    IF clip.broadcaster_id \in bl THEN "blacklisted"
    ELSE IF clip.view_count < min_views THEN "low_views"
    ELSE IF ~PassesFilter(clip, wl) THEN "filtered"
    ELSE LET scan == DedupScan(clip, acc, 1) IN
         IF scan = "new" THEN "accept" ELSE scan

\* controllers/twitch.py lines 227-262: the loop over one page's records
RECURSIVE ParsePage(_, _, _)
ParsePage(acc, page, n) ==
    IF n > Len(page) THEN [clips |-> acc, raised |-> FALSE]
    ELSE LET clip == page[n]
             decision == RecordDecision(clip, acc, whitelist, blacklist)
         IN  IF decision = "low_views" THEN [clips |-> acc, raised |-> FALSE]
             ELSE IF decision = "raise" THEN [clips |-> acc, raised |-> TRUE]
             ELSE IF decision = "accept"
             THEN LET more == Append(acc, Annotate(clip)) IN
                  IF LimitReached(more) THEN [clips |-> more, raised |-> FALSE]
                  ELSE ParsePage(more, page, n + 1)
             ELSE ParsePage(acc, page, n + 1)

\* services/twitch.py lines 189-202: the loop over one page's records
RECURSIVE ParsePageServices(_, _, _)
ParsePageServices(acc, page, n) ==
    IF n > Len(page) THEN [clips |-> acc, raised |-> FALSE]
    ELSE LET clip == page[n] IN
         IF ~PassesFilterServices(clip) THEN ParsePageServices(acc, page, n + 1)
         ELSE LET scan == DedupScan(clip, acc, 1) IN
              IF scan = "raise" THEN [clips |-> acc, raised |-> TRUE]
              ELSE IF scan = "dup" THEN ParsePageServices(acc, page, n + 1)
              ELSE ParsePageServices(Append(acc, clip), page, n + 1)

\* a faulty insertion that puts x before the elements with an equal key
\* (sensitivity of C24)
RECURSIVE InsertDescUnstable(_, _)
InsertDescUnstable(x, sorted) ==
    IF sorted = <<>> THEN <<x>>
    ELSE IF x.view_count > Head(sorted).view_count
            \/ (x.view_count = Head(sorted).view_count
                /\ x.created_at >= Head(sorted).created_at)
    THEN <<x>> \o sorted
    ELSE <<Head(sorted)>> \o InsertDescUnstable(x, Tail(sorted))

\* the sort key (view_count, created_at), compared as Python compares tuples
KeyLess(x, y) ==
    \/ x.view_count < y.view_count
    \/ x.view_count = y.view_count /\ x.created_at < y.created_at

\* x goes before the first element with a smaller key: equal keys keep their order
RECURSIVE InsertDesc(_, _)
InsertDesc(x, sorted) ==
    IF sorted = <<>> THEN <<x>>
    ELSE IF KeyLess(Head(sorted), x) THEN <<x>> \o sorted
    ELSE <<Head(sorted)>> \o InsertDesc(x, Tail(sorted))

\* clips.sort(key=lambda clip: (view_count, created_at), reverse=True)
RECURSIVE SortClips(_)
SortClips(cs) ==
    IF cs = <<>> THEN <<>>
    ELSE InsertDesc(cs[Len(cs)], SortClips(SubSeq(cs, 1, Len(cs) - 1)))

Summary(resp) ==
    [empty |-> resp.data = <<>>,
     cursor |-> resp.cursor,
     lead |-> IF resp.data = <<>> THEN "none" ELSE resp.data[1].id]

\* a faulty cursor update that keeps the cursor of the request just made
\* (sensitivity of C33)
NextAfterKept(after, resp) == after

\* params["after"] = response["pagination"]["cursor"]
NextAfter(after, resp) == resp.cursor

\* a faulty loop guard, one iteration too many (sensitivity of C9)
LoopContinuesOffByOne(iter, cap) == iter <= cap

\* `for _ in range(cap)`: another iteration is due
LoopContinues(iter, cap) == iter < cap

WInit ==
    /\ w_impl \in {"controllers", "services", "wrapper"}
    /\ w_pages \in 0..MaxPages
    /\ (w_impl # "controllers" => w_pages = MaxPages)
    /\ w_pc = "loop"
    /\ clips = <<>>
    /\ w_after = NoCursor
    /\ w_iter = 0
    /\ w_requests = 0
    /\ w_sent_after = NoCursor
    /\ w_last = [empty |-> TRUE, cursor |-> "", lead |-> "none"]
    /\ w_outcome = "none"
    /\ w_unsorted = <<>>

\* the walk ends: the list is sorted and returned, or an exception propagates
Finish(acc, outcome) ==
    /\ w_pc' = "done"
    /\ w_outcome' = outcome
    /\ w_unsorted' = acc
    /\ clips' = IF outcome = "returned" THEN SortClips(acc) ELSE acc

\* what every page request does to the bookkeeping
Request(resp) ==
    /\ w_requests' = w_requests + 1
    /\ w_sent_after' = w_after
    /\ w_iter' = w_iter + 1
    /\ w_last' = Summary(resp)

\* controllers/twitch.py lines 220-269: one iteration of the page loop, and the
\* sort and return once the loop is left
ParseClipsIteration ==
    /\ w_impl = "controllers"
    /\ w_pc = "loop"
    /\ LoopContinues(w_iter, Max(1, w_pages))
    /\ \E resp \in Responses(ClipUniverse) :
        /\ Request(resp)
        /\ IF resp.kind = "raise"
           THEN Finish(clips, "HTTPError") /\ UNCHANGED w_after
           ELSE IF resp.data = <<>>
           THEN Finish(clips, "returned") /\ UNCHANGED w_after
           ELSE IF CursorRaises(resp.cursor)
           THEN Finish(clips, "KeyError") /\ UNCHANGED w_after
           ELSE IF CursorFalsy(resp.cursor)
           THEN Finish(clips, "returned") /\ UNCHANGED w_after
           ELSE LET parsed == ParsePage(clips, resp.data, 1) IN
                IF parsed.raised
                THEN Finish(parsed.clips, "TypeError") /\ UNCHANGED w_after
                ELSE /\ w_after' = NextAfter(w_after, resp)
                     /\ IF LoopContinues(w_iter + 1, Max(1, w_pages))
                        THEN /\ clips' = parsed.clips
                             /\ UNCHANGED <<w_pc, w_outcome, w_unsorted>>
                        ELSE Finish(parsed.clips, "returned")
    /\ UNCHANGED <<w_impl, w_pages>>

\* services/twitch.py lines 185-228: one iteration of the page loop, and the sort
\* and return once the loop is left
GetGameClipsIteration ==
    /\ w_impl = "services"
    /\ w_pc = "loop"
    /\ LoopContinues(w_iter, maximum_page)
    /\ \E resp \in Responses(ClipUniverse) :
        /\ Request(resp)
        /\ LET last == ~LoopContinues(w_iter + 1, maximum_page) IN
           IF resp.kind = "raise"
           THEN Finish(clips, "HTTPError") /\ UNCHANGED w_after
           ELSE IF resp.data = <<>>
           THEN \* line 188: nothing is done, the loop goes on with the same params
                /\ UNCHANGED w_after
                /\ IF last THEN Finish(clips, "returned")
                   ELSE UNCHANGED <<clips, w_pc, w_outcome, w_unsorted>>
           ELSE LET parsed == ParsePageServices(clips, resp.data, 1) IN
                IF parsed.raised
                THEN Finish(parsed.clips, "TypeError") /\ UNCHANGED w_after
                ELSE IF Len(parsed.clips) >= minimum_clips
                THEN Finish(parsed.clips, "returned") /\ UNCHANGED w_after
                ELSE IF resp.data[1].view_count < minimum_views
                THEN Finish(parsed.clips, "returned") /\ UNCHANGED w_after
                ELSE IF CursorRaises(resp.cursor)
                THEN Finish(parsed.clips, "KeyError") /\ UNCHANGED w_after
                ELSE IF CursorFalsy(resp.cursor)
                THEN Finish(parsed.clips, "returned") /\ UNCHANGED w_after
                ELSE /\ w_after' = NextAfter(w_after, resp)
                     /\ IF last THEN Finish(parsed.clips, "returned")
                        ELSE /\ clips' = parsed.clips
                             /\ UNCHANGED <<w_pc, w_outcome, w_unsorted>>
    /\ UNCHANGED <<w_impl, w_pages>>

\* request.py lines 54-72: the first request of the wrapper (raise_for_status
\* applies to it, and to no later one) or one iteration of its while loop
WrapperIteration ==
    /\ w_impl = "wrapper"
    /\ w_pc = "loop"
    /\ w_requests < MaxWrapperRequests
    /\ \E resp \in Responses(WrapperUniverse) :
        /\ Request(resp)
        /\ IF resp.kind = "raise"
           THEN Finish(clips, "HTTPError") /\ UNCHANGED w_after
           ELSE LET more == clips \o resp.data IN
                IF resp.data = <<>> \/ resp.cursor = NullPagination
                THEN \* line 63: the while condition fails, func gets the result
                     /\ w_pc' = "done"
                     /\ w_outcome' = "returned"
                     /\ clips' = more
                     /\ w_unsorted' = more
                     /\ UNCHANGED w_after
                ELSE IF resp.cursor = AbsentCursor
                THEN Finish(more, "KeyError") /\ UNCHANGED w_after
                ELSE /\ w_after' = NextAfter(w_after, resp)
                     /\ clips' = more
                     /\ UNCHANGED <<w_pc, w_outcome, w_unsorted>>
    /\ UNCHANGED <<w_impl, w_pages>>

\* the walk when another component is the one under study: never started
WParked ==
    /\ w_impl = "controllers"
    /\ w_pages = 0
    /\ w_pc = "done"
    /\ clips = <<>>
    /\ w_after = NoCursor
    /\ w_iter = 0
    /\ w_requests = 0
    /\ w_sent_after = NoCursor
    /\ w_last = [empty |-> TRUE, cursor |-> "", lead |-> "none"]
    /\ w_outcome = "none"
    /\ w_unsorted = <<>>

(***************************************************************************)
(* Record filter of __parse_clips, lines 227-262, with the whitelist and   *)
(* the blacklist configured.  The source sets both to [] (lines 216-217,   *)
(* under a note that they are to become parameters); here they are drawn   *)
(* from the broadcasters of the records, and the loop body is applied to   *)
(* one record after the other.                                             *)
(***************************************************************************)
f_vars == <<f_impl, f_whitelist, f_blacklist, f_clips, f_seen, f_pc, f_last>>

\* the records of one page: those of the walk, a second one without a source
\* video, and one record failing each single criterion
FilterUniverse ==
    ClipUniverse \cup
    { Clip("g", "b1", "", None, 10, 80, "fr", 1),
      Clip("h", "b2", "v3", 5, 4, 80, "fr", 1),
      Clip("i", "b2", "v4", 5, 40, 80, "fr", 1),
      Clip("j", "b2", "v5", 5, 10, 80, "en", 1),
      Clip("k", "b2", "v6", None, 10, 80, "fr", 1) }

Broadcasters == {c.broadcaster_id : c \in FilterUniverse}

NoRecord == [id |-> "none", decision |-> "none"]

\* services/twitch.py lines 189-201: what the loop body of get_game_clips does
\* with one record
RecordDecisionServices(clip, acc) ==
    IF ~PassesFilterServices(clip) THEN "filtered"
    ELSE LET scan == DedupScan(clip, acc, 1) IN
         IF scan = "new" THEN "accept" ELSE scan

\* a faulty loop body in which a later candidate takes the place of the accepted
\* clip it duplicates (sensitivity of C34)
AcceptedAfterReplacing(impl, acc, clip, decision) ==
    IF decision = "accept"
    THEN Append(acc, IF impl = "controllers" THEN Annotate(clip) ELSE clip)
    ELSE IF decision = "dup"
    THEN [m \in 1..Len(acc) |-> IF SameMoment(clip, acc[m]) THEN clip ELSE acc[m]]
    ELSE acc

\* controllers/twitch.py lines 247-258, services/twitch.py lines 196-202: the
\* accepted clips after the loop body has dealt with one record
AcceptedAfter(impl, acc, clip, decision) ==
    IF decision = "accept"
    THEN Append(acc, IF impl = "controllers" THEN Annotate(clip) ELSE clip)
    ELSE acc

\* get_game_clips has neither list
FInit ==
    /\ f_impl \in {"controllers", "services"}
    /\ f_whitelist \in SUBSET Broadcasters
    /\ f_blacklist \in SUBSET Broadcasters
    /\ (f_impl = "services" => f_whitelist = {} /\ f_blacklist = {})
    /\ f_clips = <<>>
    /\ f_seen = {}
    /\ f_pc = "loop"
    /\ f_last = NoRecord

\* one iteration of `for clip in response["data"]` (controllers/twitch.py
\* lines 227-262, services/twitch.py lines 189-202)
ParseRecord ==
    /\ f_pc = "loop"
    /\ \E clip \in FilterUniverse :
         /\ clip.id \notin f_seen
         /\ LET decision == IF f_impl = "controllers"
                            THEN RecordDecision(clip, f_clips, f_whitelist, f_blacklist)
                            ELSE RecordDecisionServices(clip, f_clips)
                more == IF f_impl = "controllers"
                        THEN Append(f_clips, Annotate(clip))
                        ELSE Append(f_clips, clip)
            IN  /\ f_last' = [id |-> clip.id, decision |-> decision]
                /\ f_seen' = f_seen \cup {clip.id}
                /\ f_clips' = AcceptedAfter(f_impl, f_clips, clip, decision)
                /\ f_pc' = IF decision = "raise" THEN "raised"
                           ELSE IF decision = "low_views" THEN "break"
                           ELSE IF f_impl = "controllers" /\ decision = "accept"
                                   /\ LimitReached(more) THEN "break"
                           ELSE "loop"
    /\ UNCHANGED <<f_impl, f_whitelist, f_blacklist>>

FParked ==
    /\ f_impl = "controllers"
    /\ f_whitelist = {}
    /\ f_blacklist = {}
    /\ f_clips = <<>>
    /\ f_seen = {}
    /\ f_pc = "break"
    /\ f_last = NoRecord

(***************************************************************************)
(* Route registry and endpoints                                            *)
(*   routing.py  Endpoint.build_url, Router.register, Routable.__init__    *)
(*   common.py   Endpoint.build_url, Router.register                       *)
(* The route tables are those of TwitchApi (services/twitch.py) and of     *)
(* YoutubeApi (youtube.py); neither has a "status" key, so the status-page *)
(* branch of Routable.__init__ is never taken.                             *)
(***************************************************************************)
g_vars == <<g_impl, router_routes, g_clients, g_pc, g_name, g_endpoint, g_query,
           g_outcome, g_url, g_stripped, g_appended, g_trailing_slash, g_new, g_calls>>

\* at most this many declared parameters of a query deviate from a plain value
MaxDeviations == 2
\* at most this many client constructions in a run
MaxClients == 2

helix_url == "https://api.twitch.tv/helix"
oauth2_url == "https://id.twitch.tv/oauth2"

\* Endpoint.__init__: the parameter lists become sets
Endpoint(base_url, slug, req, opt) ==
    [base_url |-> base_url, slug |-> slug, required_params |-> req, optional_params |-> opt]

\* the `routes` dictionary of TwitchApi.__init__
twitch_routes ==
    [auth |-> Endpoint(oauth2_url, "/token", {"client_id", "client_secret", "grant_type"}, {}),
     validate |-> Endpoint(oauth2_url, "/validate", {}, {}),
     games |-> Endpoint(helix_url, "/games", {}, {"after", "before", "first"}),
     game |-> Endpoint(helix_url, "/games", {"name"}, {}),
     clips |-> Endpoint(helix_url, "/clips", {"game_id"},
                        {"started_at", "ended_at", "before", "first", "after"}),
     clip |-> Endpoint(helix_url, "/clips", {"id"}, {})]

\* the `routes` dictionary of youtube.py
youtube_routes ==
    [auth |-> Endpoint("https://accounts.google.com/o/oauth2/v2/", "auth",
                       {"client_id", "scope", "response_type", "redirect_uri"},
                       {"access_type", "include_granted_scopes", "state", "login_hint", "prompt"}),
     token |-> Endpoint("https://oauth2.googleapis.com/", "token",
                        {"client_id", "client_secret", "code", "grant_type", "redirect_uri"}, {}),
     categories |-> Endpoint("https://www.googleapis.com/youtube/v3/", "videoCategories",
                             {"part"}, {"id", "regionCode"}),
     upload |-> Endpoint("https://www.googleapis.com/upload/youtube/v3", "videos", {}, {})]

\* the two registrations of the legacy TwitchApi.__init__
legacy_routes ==
    [auth |-> Endpoint(oauth2_url, "/token", {"client_id", "client_secret", "grant_type"}, {}),
     validate |-> Endpoint(helix_url, "/validate", {}, {})]

\* the API clients of each version; urls.py has neither client nor router
Clients(impl) ==
    IF impl \in {"routing", "common"} THEN {"TwitchApi", "YoutubeApi"}
    ELSE IF impl = "legacy" THEN {"TwitchApi"}
    ELSE {}
RoutesOf(impl, client) ==
    IF impl = "legacy" THEN legacy_routes
    ELSE IF client = "TwitchApi" THEN twitch_routes ELSE youtube_routes

\* query values: Python None, the empty string, a plain string
QNone == "<None>"
QueryValues == {QNone, "", "v"}
\* a keyword no endpoint declares
Undeclared == "undeclared"

Declared(e) == e.required_params \cup e.optional_params

\* truth value of a query value (`and query[k]`)
Truthy(v) == v # QNone /\ v # ""

\* str(v) as urlencode applies it
Str(v) == IF v = QNone THEN "None" ELSE v

\* the queries handed to build_url: every declared parameter given a plain
\* value, except a few that are left out or given None or "", and possibly a
\* keyword the endpoint does not declare
Queries(e) ==
    LET odd == {S \in SUBSET Declared(e) : Cardinality(S) <= MaxDeviations}
    IN  UNION {
          UNION {
            { [k \in ((Declared(e) \ {k \in S : f[k] = "<absent>"}) \cup x.keys) |->
                 IF k = Undeclared THEN x.val
                 ELSE IF k \in S THEN f[k] ELSE "v"]
              : x \in {[keys |-> {}, val |-> "v"]}
                       \cup {[keys |-> {Undeclared}, val |-> v] : v \in QueryValues} }
            : f \in [S -> {"<absent>", QNone, ""}] }
          : S \in odd }

\* a faulty normalisation keeping every keyword of the query (sensitivity of C13)
NormalizeEveryKeyword(impl, e, query) == query

\* the dictionary `noramlized` (routing.py) / `params` (common.py)
Normalize(impl, e, query) ==
    LET kept == IF impl \in {"routing", "legacy"}
                THEN {k \in Declared(e) : k \in DOMAIN query /\ Truthy(query[k])}
                ELSE {k \in Declared(e) : k \in DOMAIN query}
    IN  [k \in kept |-> query[k]]

\* the two tests that raise ValueError
MissingRequired(e, params) ==
    \/ Cardinality(DOMAIN params) < Cardinality(e.required_params)
    \/ \E param \in e.required_params : param \notin DOMAIN params

\* urlencode: one name=value pair per key of the dictionary, values through str
RECURSIVE urlencode(_)
urlencode(params) ==
    IF DOMAIN params = {} THEN <<>>
    ELSE LET k == CHOOSE x \in DOMAIN params : TRUE
         IN  <<[name |-> k, value |-> Str(params[k])]>>
             \o urlencode([x \in DOMAIN params \ {k} |-> params[x]])

NoEndpoint == Endpoint("", "", {}, {})
NoUrl == [base_url |-> "", slug |-> "", query |-> <<>>]

\* urlparse / urlunparse: the path gets the slug appended, the query string is
\* replaced by the encoded parameters
UrlOf(e, params) == [base_url |-> e.base_url, slug |-> e.slug, query |-> urlencode(params)]

\* Router.register: self.__routes[namespace] = endpoint
register(routes, namespace, endpoint) ==
    [n \in DOMAIN routes \cup {namespace} |->
        IF n = namespace THEN endpoint ELSE routes[n]]

\* the loop of Routable.__init__ over routes.items()
RECURSIVE RegisterAll(_, _, _)
RegisterAll(routes, table, keys) ==
    IF keys = {} THEN routes
    ELSE LET key == CHOOSE k \in keys : TRUE
         IN  RegisterAll(register(routes, key, table[key]), table, keys \ {key})

\* the arguments handed to Endpoint(base_url, slug, req, opt): an argument left
\* out is None
BaseUrls == {"", " ", helix_url, "https://api.twitch.tv/helix/"}
Slugs == {"", "/", "/clips"}
ParamNames == {"id", "first"}
ParamArgs ==
    {[given |-> FALSE, names |-> {}]} \cup {[given |-> TRUE, names |-> S] : S \in SUBSET ParamNames}

\* str.strip on the strings above
Strip(str) == IF str = " " THEN "" ELSE str

\* routing.py __validate_urls raises ValueError on a string that is empty once
\* stripped; the other versions test the type only, or nothing
ValidateUrls(impl, base_url, slug) ==
    IF impl = "routing" /\ (Strip(base_url) = "" \/ Strip(slug) = "")
    THEN "ValueError" ELSE "ok"

\* a faulty validation that accepts every pair of lists (sensitivity of C27)
ValidateUrlParamsAccepting(impl, req, opt) == "ok"

\* the required and optional lists become sets and must be disjoint; urls.py
\* turns None into a dictionary, which set.intersection refuses as first argument
ValidateUrlParams(impl, req, opt) ==
    IF impl = "urls" /\ ~req.given THEN "TypeError"
    ELSE IF req.names \cap opt.names # {} THEN "ValueError"
    ELSE "ok"

NoArgs == [base_url |-> "", slug |-> "", req |-> [given |-> FALSE, names |-> {}],
           opt |-> [given |-> FALSE, names |-> {}]]
NoCall == [args |-> NoArgs, outcome |-> "none", endpoint |-> NoEndpoint]

\* Endpoint.__init__: the URL parts are validated first, then the parameters
NewEndpoint(impl, args) ==
    LET urls == ValidateUrls(impl, args.base_url, args.slug)
        params == ValidateUrlParams(impl, args.req, args.opt)
        outcome == IF urls # "ok" THEN urls ELSE params
    IN  [args |-> args,
         outcome |-> outcome,
         endpoint |-> IF outcome # "ok" THEN NoEndpoint
                      ELSE IF impl = "routing"
                      THEN Endpoint(Strip(args.base_url), Strip(args.slug), args.req.names, args.opt.names)
                      ELSE Endpoint(args.base_url, args.slug, args.req.names, args.opt.names)]

\* the namespaces asked of the router: those of the two tables, the one used to
\* register a further endpoint, and one that nothing registers
CustomNamespace == "custom"
Namespaces ==
    DOMAIN twitch_routes \cup DOMAIN youtube_routes \cup {CustomNamespace, "unknown"}

\* the strings above and those of the route tables that end with a slash
EndsWithSlash(str) ==
    str \in {"/", "https://accounts.google.com/o/oauth2/v2/", "https://oauth2.googleapis.com/",
             "https://www.googleapis.com/youtube/v3/", "https://api.twitch.tv/helix/"}

\* the number of slashes the URL ends with: none after a query string, else
\* those of the slug, and those of the base URL too when the slug is "/" or ""
UrlTrailingSlashes(url) ==
    IF url.query # <<>> THEN 0
    ELSE IF url.slug = "" THEN (IF EndsWithSlash(url.base_url) THEN 1 ELSE 0)
    ELSE IF url.slug = "/" THEN 1 + (IF EndsWithSlash(url.base_url) THEN 1 ELSE 0)
    ELSE (IF EndsWithSlash(url.slug) THEN 1 ELSE 0)

\* url[-1] == "/"
UrlEndsWithSlash(url) == UrlTrailingSlashes(url) >= 1

\* urlunparse gives the empty string, on which url[-1] raises IndexError
UrlIsEmpty(url) == url.base_url = "" /\ url.slug = "" /\ url.query = <<>>

\* `namespace in self.__routes`
IsRegistered(routes, namespace) == namespace \in DOMAIN routes

GInit ==
    /\ g_impl \in {"routing", "common", "legacy", "urls"}
    /\ router_routes = << >>
    /\ g_clients = <<>>
    /\ g_pc = "idle"
    /\ g_name = ""
    /\ g_endpoint = NoEndpoint
    /\ g_query = << >>
    /\ g_outcome = "none"
    /\ g_url = NoUrl
    /\ g_stripped = FALSE
    /\ g_appended = FALSE
    /\ g_trailing_slash \in BOOLEAN
    /\ g_new = NoCall
    /\ g_calls = 0

\* Routable.__init__(routes), called by the constructor of an API client; the
\* router of the clients is Router(trailing_slash=False)
Construct ==
    /\ Len(g_clients) < MaxClients
    /\ ~g_trailing_slash
    /\ \E client \in Clients(g_impl) :
         /\ router_routes' = RegisterAll(router_routes, RoutesOf(g_impl, client),
                                         DOMAIN RoutesOf(g_impl, client))
         /\ g_clients' = Append(g_clients, client)
    /\ UNCHANGED <<g_impl, g_pc, g_name, g_endpoint, g_query, g_outcome, g_url, g_stripped,
                   g_appended, g_trailing_slash, g_new, g_calls>>

\* Endpoint.build_url(**query) on the endpoint a namespace resolves to; a run
\* follows one call, the function being pure
BuildUrl ==
    /\ g_pc = "idle"
    /\ \E namespace \in DOMAIN router_routes :
         LET endpoint == router_routes[namespace]
         IN  \E query \in Queries(endpoint) :
               LET params == Normalize(g_impl, endpoint, query)
               IN  /\ g_name' = namespace
                   /\ g_endpoint' = endpoint
                   /\ g_query' = query
                   /\ IF MissingRequired(endpoint, params)
                      THEN g_outcome' = "ValueError" /\ g_url' = NoUrl
                      ELSE g_outcome' = "url" /\ g_url' = UrlOf(endpoint, params)
    /\ g_pc' = "built"
    /\ UNCHANGED <<g_impl, router_routes, g_clients, g_stripped, g_appended,
                   g_trailing_slash, g_new, g_calls>>

\* router.register(namespace, Endpoint(base_url, slug, req=..., opt=...)): when
\* the constructor raises, register is not reached; urls.py has no router
RegisterEndpoint ==
    /\ g_pc = "idle"
    /\ \E base_url \in BaseUrls, slug \in Slugs, req \in ParamArgs, opt \in ParamArgs :
         LET made == NewEndpoint(g_impl, [base_url |-> base_url, slug |-> slug,
                                           req |-> req, opt |-> opt])
         IN  /\ g_new' = made
             /\ router_routes' = IF made.outcome = "ok" /\ g_impl # "urls"
                                 THEN register(router_routes, CustomNamespace, made.endpoint)
                                 ELSE router_routes
    /\ g_pc' = "made"
    /\ UNCHANGED <<g_impl, g_clients, g_name, g_endpoint, g_query, g_outcome, g_url,
                   g_stripped, g_appended, g_trailing_slash, g_calls>>

\* Router.route(namespace, **query), alone or as the first step of
\* Router.request(method, namespace, header, **params), which then issues the
\* HTTP call; the legacy router has no request method and answers None for a
\* namespace it does not know.  A run follows one call, on any namespace, or
\* the call for the endpoint it has just registered.
Route ==
    /\ g_pc \in {"idle", "made"}
    /\ g_impl # "urls"
    /\ \E namespace \in Namespaces, op \in {"route", "request"} :
         /\ g_pc = "made" => namespace = CustomNamespace
         /\ op = "request" => g_impl \in {"routing", "common"}
         /\ g_name' = namespace
         /\ IF ~IsRegistered(router_routes, namespace)
            THEN /\ g_outcome' = IF g_impl = "legacy" THEN "None" ELSE "ValueError"
                 /\ UNCHANGED <<g_endpoint, g_query, g_url, g_stripped, g_appended, g_calls>>
            ELSE LET endpoint == router_routes[namespace] IN
                 \E query \in Queries(endpoint) :
                    LET params == Normalize(g_impl, endpoint, query)
                        url == UrlOf(endpoint, params)
                    IN  /\ g_endpoint' = endpoint
                        /\ g_query' = query
                        /\ IF MissingRequired(endpoint, params)
                           THEN /\ g_outcome' = "ValueError"
                                /\ UNCHANGED <<g_url, g_stripped, g_appended, g_calls>>
                           ELSE IF UrlIsEmpty(url)
                           THEN /\ g_outcome' = "IndexError"
                                /\ UNCHANGED <<g_url, g_stripped, g_appended, g_calls>>
                           ELSE /\ g_outcome' = "url"
                                /\ g_url' = url
                                /\ g_appended' = (g_trailing_slash /\ ~UrlEndsWithSlash(url))
                                /\ g_stripped' = (~g_trailing_slash /\ UrlEndsWithSlash(url))
                                /\ g_calls' = IF op = "request" THEN g_calls + 1 ELSE g_calls
    /\ g_pc' = "routed"
    /\ UNCHANGED <<g_impl, router_routes, g_clients, g_trailing_slash, g_new>>

GParked ==
    /\ g_impl = "routing"
    /\ router_routes = << >>
    /\ g_clients = <<>>
    /\ g_pc = "idle"
    /\ g_name = ""
    /\ g_endpoint = NoEndpoint
    /\ g_query = << >>
    /\ g_outcome = "none"
    /\ g_url = NoUrl
    /\ g_stripped = FALSE
    /\ g_appended = FALSE
    /\ g_trailing_slash = FALSE
    /\ g_new = NoCall
    /\ g_calls = 0


(***************************************************************************)
(* The comparison ne of actions/edit.py on its own, called as its tests    *)
(* call it: on a list of dictionaries with their key, and on a list of     *)
(* plain elements with key None.                                           *)
(***************************************************************************)
VARIABLES n_kind, n_data, n_key, n_pc, n_i, n_j, n_out, n_back
n_vars == <<n_kind, n_data, n_key, n_pc, n_i, n_j, n_out, n_back>>

NeMaxLen == 3
NeNumValues == 2
NeLists == UNION {[1..n -> 1..NeNumValues] : n \in 1..NeMaxLen}

\* the key under which the dictionaries hold their value, and Python's None
DictKey == "k"
NoneKey == "None"

\* element[key]: a dictionary yields its value under its key and raises
\* KeyError for another key; a plain element cannot be subscripted by a key
Subscript(kind, key) ==
    IF kind = "plain" THEN "TypeError"
    ELSE IF key # DictKey THEN "KeyError"
    ELSE "ok"

\* ne(data, key, i, j): data[i][key] != data[j][key]; the list holds, for
\* dictionaries, the value under DictKey, and for plain elements the element
ne_of(kind, d, key, i, j) ==
    IF Subscript(kind, key) # "ok" THEN Subscript(kind, key)
    ELSE IF At(d, i) # At(d, j) THEN "True"
    ELSE "False"

NInit ==
    /\ n_kind \in {"dicts", "plain"}
    /\ n_data \in NeLists
    /\ n_key \in {DictKey, NoneKey}
    /\ n_pc = "idle"
    /\ n_i = 0
    /\ n_j = 0
    /\ n_out = "none"
    /\ n_back = "none"

\* ne(data, key, i, j) and ne(data, key, j, i) for two indices in range
CallNe ==
    /\ n_pc = "idle"
    /\ \E i \in 0..(Len(n_data) - 1), j \in 0..(Len(n_data) - 1) :
        /\ n_i' = i
        /\ n_j' = j
        /\ n_out' = ne_of(n_kind, n_data, n_key, i, j)
        /\ n_back' = ne_of(n_kind, n_data, n_key, j, i)
    /\ n_pc' = "done"
    /\ UNCHANGED <<n_kind, n_data, n_key>>

NParked ==
    /\ n_kind = "dicts"
    /\ n_data = <<1>>
    /\ n_key = DictKey
    /\ n_pc = "idle"
    /\ n_i = 0
    /\ n_j = 0
    /\ n_out = "none"
    /\ n_back = "none"


(***************************************************************************)
(* Command line of the collect sub-command: actions/collect.py get_parser, *)
(* as tests/test_collect.py calls it (parse_args on a list of arguments    *)
(* under an environment with or without MONGO_DB_URI).                     *)
(***************************************************************************)
VARIABLES p_env, p_args, p_pc, p_outcome, p_namespace
p_vars == <<p_env, p_args, p_pc, p_outcome, p_namespace>>

MaxArgs == 3

\* os.getenv("MONGO_DB_URI"): None when the variable is not set
Unset == "<unset>"
MongoUris == {Unset, "", "mongodb://localhost:27017"}

\* main.DEFAULT_REPORT_FOLDER
DEFAULT_REPORT_FOLDER == "reports/"

OptionStrings == {"-out", "--output"}
Tokens == OptionStrings \cup {"file.json", "/dir1/dir2/"}

RECURSIVE ArgLists(_)
ArgLists(n) ==
    IF n = 0 THEN {<<>>}
    ELSE LET shorter == ArgLists(n - 1) IN
         shorter \cup {Append(a, t) : a \in {b \in shorter : Len(b) = n - 1}, t \in Tokens}

\* a faulty setting under which the option is never required (sensitivity of C31)
RequiredNever(env) == FALSE

\* required=os.getenv("MONGO_DB_URI") is None
Required(env) == env = Unset

NoOutput == [seen |-> FALSE, output |-> "", extras |-> FALSE]

\* argparse on the argument list: the option takes the next argument when there
\* is one that is not an option (nargs="?") and the const otherwise, the last
\* occurrence wins, and an argument no option takes is unrecognized
RECURSIVE Consume(_, _, _)
Consume(args, n, acc) ==
    IF n > Len(args) THEN acc
    ELSE IF args[n] \in OptionStrings
    THEN IF n < Len(args) /\ args[n + 1] \notin OptionStrings
         THEN Consume(args, n + 2, [acc EXCEPT !.seen = TRUE, !.output = args[n + 1]])
         ELSE Consume(args, n + 1, [acc EXCEPT !.seen = TRUE, !.output = DEFAULT_REPORT_FOLDER])
    ELSE Consume(args, n + 1, [acc EXCEPT !.extras = TRUE])

NoNamespace == [func |-> "none", has_output |-> FALSE, output |-> ""]

\* parse_args: exit code 2 for a missing required option or an unrecognized
\* argument; default=argparse.SUPPRESS leaves `output` out of the namespace
\* when the option is not given
ParseArgs(env, args) ==
    LET got == Consume(args, 1, NoOutput) IN
    IF (Required(env) /\ ~got.seen) \/ got.extras
    THEN [outcome |-> "SystemExit(2)", namespace |-> NoNamespace]
    ELSE [outcome |-> "namespace",
          namespace |-> [func |-> "collect", has_output |-> got.seen, output |-> got.output]]

PInit ==
    /\ p_env \in MongoUris
    /\ p_args \in ArgLists(MaxArgs)
    /\ p_pc = "idle"
    /\ p_outcome = "none"
    /\ p_namespace = NoNamespace

\* collect.get_parser(subparsers).parse_args(args)
GetParserParseArgs ==
    /\ p_pc = "idle"
    /\ p_pc' = "done"
    /\ p_outcome' = ParseArgs(p_env, p_args).outcome
    /\ p_namespace' = ParseArgs(p_env, p_args).namespace
    /\ UNCHANGED <<p_env, p_args>>

PParked ==
    /\ p_env = Unset
    /\ p_args = <<>>
    /\ p_pc = "idle"
    /\ p_outcome = "none"
    /\ p_namespace = NoNamespace

(***************************************************************************)
(* MongoDB of services/databases/mongo.py, a Singleton (utils/types.py),   *)
(* used as a context manager.                                              *)
(***************************************************************************)
VARIABLES m_instances, m_client, m_depth, m_entries, m_connects, m_yielded, m_ops
m_vars == <<m_instances, m_client, m_depth, m_entries, m_connects, m_yielded, m_ops>>

MaxEntries == 4
MaxDepth == 2
MaxOps == 3

\* `if self.client:` / `if not self.client:`: a MongoClient object is truthy,
\* open or closed
ClientTruthy(client) == client # "unset"

\* MongoDB.__connect: self.client = MongoClient(...)
Connect(client) == "open"

\* MongoDB.__disconnect: self.client.close(); the attribute keeps the client
Disconnect(client) == IF ClientTruthy(client) THEN "closed" ELSE client

\* MongoDB.__enter__: connects when there is no client
Enter(client) == IF ~ClientTruthy(client) THEN Connect(client) ELSE client

MInit ==
    /\ m_instances = FALSE
    /\ m_client = "unset"
    /\ m_depth = 0
    /\ m_entries = 0
    /\ m_connects = 0
    /\ m_yielded = "none"
    /\ m_ops = <<>>

\* `with MongoDB() as mongo_db:` up to the body: Singleton.__call__ constructs
\* the instance on the first call only (__init__ connects), then __enter__
EnterWith ==
    /\ m_entries < MaxEntries
    /\ m_depth < MaxDepth
    /\ LET made == IF m_instances THEN m_client ELSE Connect(m_client)
           entered == Enter(made)
       IN  /\ m_client' = entered
           /\ m_yielded' = entered
           /\ m_connects' = m_connects + (IF m_instances THEN 0 ELSE 1)
                                       + (IF ClientTruthy(made) THEN 0 ELSE 1)
    /\ m_instances' = TRUE
    /\ m_depth' = m_depth + 1
    /\ m_entries' = m_entries + 1
    /\ UNCHANGED m_ops

\* an operation of the body on the database (insert_documents in collect): on
\* a closed client the driver either opens it again or refuses, by its version
Operate ==
    /\ m_depth > 0
    /\ Len(m_ops) < MaxOps
    /\ \E outcome \in IF m_client = "open" THEN {"done"} ELSE {"reopened", "InvalidOperation"} :
         m_ops' = Append(m_ops, outcome)
    /\ UNCHANGED <<m_instances, m_client, m_depth, m_entries, m_connects, m_yielded>>

\* the end of the with block, with or without an exception: __exit__
ExitWith ==
    /\ m_depth > 0
    /\ m_client' = Disconnect(m_client)
    /\ m_depth' = m_depth - 1
    /\ UNCHANGED <<m_instances, m_entries, m_connects, m_yielded, m_ops>>

MParked ==
    /\ m_instances = FALSE
    /\ m_client = "unset"
    /\ m_depth = 0
    /\ m_entries = 0
    /\ m_connects = 0
    /\ m_yielded = "none"
    /\ m_ops = <<>>

(***************************************************************************)
(* default_kwargs of utils/decorators.py (and of the legacy                *)
(* twitch_compyle/services/decorators.py), as HttpPooling.__init__ uses it.*)
(***************************************************************************)
VARIABLES k_defaults, k_calls, k_kwargs, k_received
k_vars == <<k_defaults, k_calls, k_kwargs, k_received>>

MaxCalls == 3

\* @default_kwargs(total=5, backoff_factor=0.3, status_forcelist=(500, 502, 503, 504))
declared_defaults ==
    [total |-> "5", backoff_factor |-> "0.3", status_forcelist |-> "(500, 502, 503, 504)"]

\* the keyword arguments of one call: some of the declared names and one other
KwargNames == {"total", "backoff_factor", "connect"}
KwargValues == {"1", "2"}
Kwargs == UNION {[S -> KwargValues] : S \in SUBSET KwargNames}

\* dict.update: the keys of `other` are set in `d`
Update(d, other) ==
    [k \in DOMAIN d \cup DOMAIN other |-> IF k \in DOMAIN other THEN other[k] ELSE d[k]]

KInit ==
    /\ k_defaults = declared_defaults
    /\ k_calls = 0
    /\ k_kwargs = << >>
    /\ k_received = << >>

\* one call of the wrapped function: defaults.update(kwargs) on the dictionary
\* of the decorator's closure, then func(*args, **defaults)
CallWrapped ==
    /\ k_calls < MaxCalls
    /\ \E kwargs \in Kwargs :
         /\ k_defaults' = Update(k_defaults, kwargs)
         /\ k_received' = Update(k_defaults, kwargs)
         /\ k_kwargs' = kwargs
    /\ k_calls' = k_calls + 1

KParked ==
    /\ k_defaults = declared_defaults
    /\ k_calls = 0
    /\ k_kwargs = << >>
    /\ k_received = << >>


(***************************************************************************)
(* Specifications: one per component, the other components parked.         *)
(***************************************************************************)
vars == <<r_vars, x_vars, w_vars, g_vars, f_vars, n_vars, p_vars, m_vars, k_vars>>

DfsInit == RInit /\ XParked /\ WParked /\ GParked /\ FParked /\ NParked /\ PParked /\ MParked /\ KParked
DfsNext ==
    \/ (\E i \in {0, 1} : CallDfs(i)) /\ UNCHANGED <<x_vars, w_vars, g_vars, f_vars, n_vars, p_vars, m_vars, k_vars>>
    \/ (\E ml \in {SmallMaxLength, max_length} : CallRearrange(ml)) /\ UNCHANGED <<x_vars, w_vars, g_vars, f_vars, n_vars, p_vars, m_vars, k_vars>>
    \/ DfsEnter /\ UNCHANGED <<x_vars, w_vars, g_vars, f_vars, n_vars, p_vars, m_vars, k_vars>>
    \/ DfsAfterInPlace /\ UNCHANGED <<x_vars, w_vars, g_vars, f_vars, n_vars, p_vars, m_vars, k_vars>>
    \/ DfsLoop /\ UNCHANGED <<x_vars, w_vars, g_vars, f_vars, n_vars, p_vars, m_vars, k_vars>>
    \/ DfsAfterSwap /\ UNCHANGED <<x_vars, w_vars, g_vars, f_vars, n_vars, p_vars, m_vars, k_vars>>
SpecDfs == DfsInit /\ [][DfsNext]_vars

\* the search is not suspended for ever: a call that can take a step takes it
SpecDfsFair == SpecDfs /\ WF_vars(DfsNext)

ExecInit == XInit /\ RParked /\ WParked /\ GParked /\ FParked /\ NParked /\ PParked /\ MParked /\ KParked
ExecNext ==
    \/ RoutingRequest /\ UNCHANGED <<r_vars, w_vars, g_vars, f_vars, n_vars, p_vars, m_vars, k_vars>>
    \/ RoutingRetryLoop /\ UNCHANGED <<r_vars, w_vars, g_vars, f_vars, n_vars, p_vars, m_vars, k_vars>>
    \/ CommonRequest /\ UNCHANGED <<r_vars, w_vars, g_vars, f_vars, n_vars, p_vars, m_vars, k_vars>>
SpecExec == ExecInit /\ [][ExecNext]_vars

WalkInit == WInit /\ RParked /\ XParked /\ GParked /\ FParked /\ NParked /\ PParked /\ MParked /\ KParked
WalkNext ==
    \/ ParseClipsIteration /\ UNCHANGED <<r_vars, x_vars, g_vars, f_vars, n_vars, p_vars, m_vars, k_vars>>
    \/ GetGameClipsIteration /\ UNCHANGED <<r_vars, x_vars, g_vars, f_vars, n_vars, p_vars, m_vars, k_vars>>
    \/ WrapperIteration /\ UNCHANGED <<r_vars, x_vars, g_vars, f_vars, n_vars, p_vars, m_vars, k_vars>>
SpecWalk == WalkInit /\ [][WalkNext]_vars

RouteInit == GInit /\ RParked /\ XParked /\ WParked /\ FParked /\ NParked /\ PParked /\ MParked /\ KParked
RouteNext ==
    \/ Construct /\ UNCHANGED <<r_vars, x_vars, w_vars, f_vars, n_vars, p_vars, m_vars, k_vars>>
    \/ BuildUrl /\ UNCHANGED <<r_vars, x_vars, w_vars, f_vars, n_vars, p_vars, m_vars, k_vars>>
    \/ RegisterEndpoint /\ UNCHANGED <<r_vars, x_vars, w_vars, f_vars, n_vars, p_vars, m_vars, k_vars>>
    \/ Route /\ UNCHANGED <<r_vars, x_vars, w_vars, f_vars, n_vars, p_vars, m_vars, k_vars>>
SpecRoute == RouteInit /\ [][RouteNext]_vars

FilterInit == FInit /\ RParked /\ XParked /\ WParked /\ GParked /\ NParked /\ PParked /\ MParked /\ KParked
FilterNext ==
    \/ ParseRecord /\ UNCHANGED <<r_vars, x_vars, w_vars, g_vars, n_vars, p_vars, m_vars, k_vars>>
SpecFilter == FilterInit /\ [][FilterNext]_vars

NeInit == NInit /\ RParked /\ XParked /\ WParked /\ GParked /\ FParked /\ PParked /\ MParked /\ KParked
NeNext ==
    \/ CallNe /\ UNCHANGED <<r_vars, x_vars, w_vars, g_vars, f_vars, p_vars, m_vars, k_vars>>
SpecNe == NeInit /\ [][NeNext]_vars

ParseInit == PInit /\ RParked /\ XParked /\ WParked /\ GParked /\ FParked /\ NParked /\ MParked /\ KParked
ParseNext ==
    \/ GetParserParseArgs /\ UNCHANGED <<r_vars, x_vars, w_vars, g_vars, f_vars, n_vars, m_vars, k_vars>>
SpecParse == ParseInit /\ [][ParseNext]_vars

MongoInit == MInit /\ RParked /\ XParked /\ WParked /\ GParked /\ FParked /\ NParked /\ PParked /\ KParked
MongoNext ==
    \/ EnterWith /\ UNCHANGED <<r_vars, x_vars, w_vars, g_vars, f_vars, n_vars, p_vars, k_vars>>
    \/ Operate /\ UNCHANGED <<r_vars, x_vars, w_vars, g_vars, f_vars, n_vars, p_vars, k_vars>>
    \/ ExitWith /\ UNCHANGED <<r_vars, x_vars, w_vars, g_vars, f_vars, n_vars, p_vars, k_vars>>
SpecMongo == MongoInit /\ [][MongoNext]_vars

KwargsInit == KInit /\ RParked /\ XParked /\ WParked /\ GParked /\ FParked /\ NParked /\ PParked /\ MParked
KwargsNext ==
    \/ CallWrapped /\ UNCHANGED <<r_vars, x_vars, w_vars, g_vars, f_vars, n_vars, p_vars, m_vars>>
SpecKwargs == KwargsInit /\ [][KwargsNext]_vars

(***************************************************************************)
(* Properties of the reorderer.                                            *)
(***************************************************************************)
NoAdjacentEqual(d) == \A p \in 1..(Len(d) - 1) : d[p].k # d[p + 1].k

Perms(n) == {f \in [1..n -> 1..n] : \A a, b \in 1..n : a # b => f[a] # f[b]}

IsPermutation(d, e) ==
    /\ Len(d) = Len(e)
    /\ \E f \in Perms(Len(e)) : \A p \in 1..Len(e) : d[p] = e[f[p]]

\* some permutation of d that keeps d[1] in place has no two adjacent equal keys
ExistsArrangementFixedFirst(d) ==
    \E f \in Perms(Len(d)) :
        /\ Len(d) > 0 => f[1] = 1
        /\ NoAdjacentEqual([p \in 1..Len(d) |-> d[f[p]]])

Count(d, k) == Cardinality({p \in 1..Len(d) : d[p].k = k})

\* no key occurs ceil(n/2)+1 or more times
NoKeyTooFrequent(d) == \A p \in 1..Len(d) : Count(d, d[p].k) <= (Len(d) + 1) \div 2

DfsReturned == r_pc = "done" /\ result # "none"

\* C1: whenever dfs (and so rearrange) reports success, the list it leaves has
\* no two adjacent elements with the same key, for every length (0, 1, 2 too).
C1_SuccessMeansNoAdjacentEqual ==
    (DfsReturned /\ result = "True") => NoAdjacentEqual(data)

\* C2: below the size threshold, dfs started at index 1 returns True exactly
\* when some permutation that keeps the element at index 0 in place has no two
\* adjacent equal keys.
C2_TrueIffArrangementExists ==
    (DfsReturned /\ start = 1 /\ Len(input) < max_length)
        => (result = "True" <=> ExistsArrangementFixedFirst(input))

\* C3: for every input in which no key occurs ceil(n/2)+1 or more times, the
\* reorderer returns True and leaves a permutation of the input with no two
\* adjacent equal keys.
C3_SparseKeysAreArranged ==
    (DfsReturned /\ NoKeyTooFrequent(input))
        => /\ result = "True"
           /\ IsPermutation(data, input)
           /\ NoAdjacentEqual(data)

KeysOf(d) == [p \in 1..Len(d) |-> d[p].k]

\* C15: when dfs returns False, the list is left in exactly its input order:
\* every swap made during the search has been undone.
C15_FailureRestoresInputOrder ==
    (DfsReturned /\ result = "False") => data = input

\* dfs from index 0 has failed on the keys [1,2,2,2], after swapping each of the
\* later elements into position 0
C15_Witness ==
    /\ DfsReturned /\ entry = "dfs" /\ start = 0
    /\ result = "False"
    /\ KeysOf(input) = <<1, 2, 2, 2>>
    /\ \A j \in 1..3 : SwapTest(input, start, j)

\* C16: started at index 1 on the keys [1,1,2,3], the search finds an
\* arrangement with no two adjacent equal keys, and the element at index 0 of
\* the result is the element that was at index 0 of the input.
C16_FirstElementKeptAndArranged ==
    (DfsReturned /\ start = 1 /\ KeysOf(input) = <<1, 1, 2, 3>>)
        => /\ result = "True"
           /\ NoAdjacentEqual(data)
           /\ data[1] = input[1]

\* C17: run on a list that already has no two adjacent equal keys, the
\* reorderer returns True and leaves the list in unchanged order.
C17_IdempotentOnSatisfying ==
    (DfsReturned /\ NoAdjacentEqual(input))
        => (result = "True" /\ data = input)

RearrangeReturned == r_pc = "done" /\ entry = "rearrange"

\* C18: at or above the size threshold, or when the search fails, rearrange
\* returns the clips in input order and does not return through the success
\* branch; a list returned through the success branch has no two adjacent
\* equal keys.
C18_FallbackKeepsOrderAndNeverClaimsSuccess ==
    RearrangeReturned
        => /\ result # "True" => data = input
           /\ result = "True" => NoAdjacentEqual(data)

\* C19: for the keys [1,1,1,1,1,6,6,6,6,6,6] with the first element kept in
\* place, the search returns False.
C19_ScenarioBNotSatisfied ==
    (DfsReturned /\ start = 1 /\ input = ScenarioB) => result = "False"

\* rearrange has run the search on the eleven-clip list and come back
C19_Witness ==
    /\ RearrangeReturned /\ DfsReturned
    /\ input = ScenarioB
    /\ result = "False"
    /\ data = input

(***************************************************************************)
(* Properties of the request executor.                                     *)
(***************************************************************************)
\* retries: int = 3, the attempt budget of the retry policy
MaxAttempts == 3

\* the transient server errors: 500, 502, 503, 504
IsTransient(st) == st \in {500, 502, 503, 504}

AllReceivedTransient == \A n \in 1..x_calls : IsTransient(x_script[n])

\* the retry loop sits on a response that makes it iterate without calling again
Spinning ==
    /\ x_pc = "loop"
    /\ RetryCondition(x_status, x_max_retries)
    /\ (IsServiceUnavailable(x_status) \/ IsTooManyRequests(x_status))

\* C6: a transient server failure is retried: when the server answers 503, 503
\* and then 200, the executor returns the 200 response after exactly three HTTP
\* calls and exactly two backoff sleeps.
C6_TransientIsRetried ==
    (x_pc = "done" /\ SubSeq(x_script, 1, 3) = <<503, 503, 200>>)
        => /\ x_outcome = "response"
           /\ x_status = 200
           /\ x_calls = 3
           /\ Len(x_sleeps) = 2

\* C7: one executor call makes at most 1 + MaxAttempts HTTP calls and never
\* iterates without progress; when every attempt was a transient failure it
\* ends by surfacing the error of the last answer.
C7_BoundedAttempts ==
    /\ x_calls <= 1 + MaxAttempts
    /\ ~Spinning
    /\ (x_pc = "done" /\ x_calls >= 1 /\ AllReceivedTransient)
        => (x_outcome = "HTTPError" /\ x_status = x_script[x_calls])

C7_Witness ==
    /\ x_pc = "done"
    /\ x_calls >= 1
    /\ AllReceivedTransient
    /\ x_outcome = "HTTPError"

\* C8: on a 429 answer the executor makes no further call, reads the reset-time
\* header and hands the caller a distinct RateLimited condition.
C8_RateLimitedIsDistinct ==
    (x_pc = "done" /\ x_calls >= 1 /\ x_status = 429)
        => /\ x_outcome = "RateLimited"
           /\ x_reset_read

\* a client or server error status that is neither transient nor 429
IsOtherFailure(st) == 400 <= st /\ st < 600 /\ ~IsTransient(st) /\ st # 429

C26_NetworkFailureIsRetried ==
    /\ (x_pc = "done" /\ SubSeq(x_script, 1, 2) = <<0, 200>>)
          => (x_outcome = "response" /\ x_calls = 2)
    /\ (x_pc = "done" /\ \A n \in 1..(1 + MaxAttempts) : IsNetworkFailure(x_script[n]))
          => (x_outcome = "ConnectionError" /\ x_calls = 1 + MaxAttempts)

(***************************************************************************)
(* Properties of the pagination walk and the curation loop.                *)
(***************************************************************************)
Curating == w_impl \in {"controllers", "services"}

Accepted(id) == \E m \in 1..Len(clips) : clips[m].id = id

\* same source video, offsets no further apart than the longer of the two clips
Overlaps(x, y) ==
    /\ x.video_id = y.video_id
    /\ Abs(x.vod_offset - y.vod_offset) <=
          (IF x.duration >= y.duration THEN x.duration ELSE y.duration)

\* C4: the list of accepted clips never holds two clips with the same video_id
\* whose vod_offset values differ by at most the longer of their durations;
\* this holds after every accepted clip, across all pages.
C4_NoOverlappingPair ==
    Curating =>
        \A m, n \in 1..Len(clips) : m < n => ~Overlaps(clips[m], clips[n])

\* a page led by clip b arrived and was parsed while a and c, from the same
\* video, were accepted: b was turned down as a duplicate
C4_Witness ==
    /\ w_impl = "controllers"
    /\ w_last.lead = "b"
    /\ w_last.cursor \in Cursors
    /\ Accepted("a")
    /\ Accepted("c")
    /\ ~Accepted("b")

\* C5: curation stops accepting once max_clips clips have been accepted: the
\* accepted list never holds more than max_clips clips, on any page.
C5_NeverMoreThanMaxClips ==
    w_impl = "controllers" => Len(clips) <= max_clips

\* C9: one pagination walk issues at most max(1, pages) page requests
\* (maximum_page in get_game_clips), whatever the API returns.
C9_PageRequestsCapped ==
    /\ w_impl = "controllers" => w_requests <= (IF w_pages >= 1 THEN w_pages ELSE 1)
    /\ w_impl = "services" => w_requests <= maximum_page

\* the cap, and nothing in the last page, ended the walk
C9_Witness ==
    /\ w_impl = "controllers"
    /\ w_pc = "done"
    /\ w_outcome = "returned"
    /\ w_pages >= 2
    /\ w_requests = w_pages
    /\ ~w_last.empty
    /\ w_last.cursor \in Cursors

\* the last page response had no data, or an empty or absent cursor
StopPage ==
    /\ w_requests >= 1
    /\ w_outcome # "HTTPError"
    /\ (w_last.empty \/ w_last.cursor \in {"", AbsentCursor, NullPagination})

\* C10: after a page response whose data is empty or whose pagination cursor
\* is empty or absent, the walk issues no further page request.
C10_NoRequestAfterStopPage ==
    [][StopPage => w_requests' = w_requests]_vars

PositionIn(cs, id) == CHOOSE m \in 1..Len(cs) : cs[m].id = id

SameKey(x, y) == x.view_count = y.view_count /\ x.created_at = y.created_at

Returned == Curating /\ w_pc = "done" /\ w_outcome = "returned"

\* C24: the returned list holds the accepted clips sorted by the pair
\* (view_count, created_at) in descending order, and clips with an equal pair
\* keep the relative order in which they were accepted.
C24_RankedDescendingAndStable ==
    Returned =>
        /\ Len(clips) = Len(w_unsorted)
        /\ \A m \in 1..Len(w_unsorted) : \E n \in 1..Len(clips) : clips[n] = w_unsorted[m]
        /\ \A m, n \in 1..Len(clips) :
              m < n =>
                /\ \/ clips[m].view_count > clips[n].view_count
                   \/ /\ clips[m].view_count = clips[n].view_count
                      /\ clips[m].created_at >= clips[n].created_at
                /\ SameKey(clips[m], clips[n]) =>
                      PositionIn(w_unsorted, clips[m].id) < PositionIn(w_unsorted, clips[n].id)

\* the sort has moved a clip forward past one of fewer views, and two clips
\* with the same pair were accepted
C24_Witness ==
    /\ Returned
    /\ clips # w_unsorted
    /\ \E m, n \in 1..Len(clips) : m < n /\ SameKey(clips[m], clips[n])

\* the last page response was led by a record below the view-count floor
LowLeadPage ==
    /\ w_requests >= 1
    /\ w_outcome # "HTTPError"
    /\ \E c \in ClipUniverse : c.id = w_last.lead /\ c.view_count < min_views

\* C11: after a page whose lead record has a view_count below the minimum-views
\* floor, the walk stops: no further page request is issued.
C11_NoRequestAfterLowLead ==
    [][(Curating /\ LowLeadPage) => w_requests' = w_requests]_vars

\* the record examined last is of a broadcaster on the whitelist and not on
\* the blacklist
LastIsWhitelisted ==
    \E c \in FilterUniverse :
        /\ c.id = f_last.id
        /\ c.broadcaster_id \in f_whitelist
        /\ c.broadcaster_id \notin f_blacklist

FilterSeen(id) == id \in f_seen
FilterAccepted(id) == \E m \in 1..Len(f_clips) : f_clips[m].id = id

C22_BlacklistedNeverAccepted ==
    \A m \in 1..Len(f_clips) : f_clips[m].broadcaster_id \notin f_blacklist

\* a record of a broadcaster on both lists, with enough views, was examined
\* last and skipped, after another record had been accepted
C22_Witness ==
    /\ f_last.decision = "blacklisted"
    /\ Len(f_clips) > 0
    /\ \E c \in FilterUniverse :
          /\ c.id = f_last.id
          /\ c.view_count >= min_views
          /\ c.broadcaster_id \in f_whitelist \cap f_blacklist

DisjointParams(e) == e.required_params \cap e.optional_params = {}

Made == g_pc = "made"

\* C27: every endpoint that exists, and so every endpoint the registry holds,
\* has disjoint required and optional parameter sets: constructing an endpoint
\* with a name in both lists fails and nothing is registered for it.
C27_EndpointParamsDisjoint ==
    /\ \A n \in DOMAIN router_routes : DisjointParams(router_routes[n])
    /\ g_new.outcome = "ok" => DisjointParams(g_new.endpoint)
    /\ (Made /\ g_new.args.req.names \cap g_new.args.opt.names # {})
          => /\ g_new.outcome \in {"ValueError", "TypeError"}
             /\ ~IsRegistered(router_routes, CustomNamespace)

\* an endpoint with a sound base URL and slug and the same name in both lists
\* was refused
C27_Witness ==
    /\ Made
    /\ g_new.args.base_url = helix_url /\ g_new.args.slug = "/clips"
    /\ g_new.args.req.names \cap g_new.args.opt.names # {}
    /\ g_new.outcome = "ValueError"
    /\ ~IsRegistered(router_routes, CustomNamespace)

\* C28: registering an endpoint with a router fails with a configuration error
\* when its base address or its path suffix is empty, and the registry is left
\* unchanged.
C28_EmptyUrlPartRefused ==
    (Made /\ g_impl # "urls" /\ (g_new.args.base_url = "" \/ g_new.args.slug = ""))
        => /\ g_new.outcome = "ValueError"
           /\ ~IsRegistered(router_routes, CustomNamespace)

Routed == g_pc = "routed"

\* C29: Router.route and Router.request for a namespace that is not registered
\* raise ValueError, build no URL and make no HTTP call.
C29_UnregisteredNamespaceRaises ==
    (Routed /\ ~IsRegistered(router_routes, g_name))
        => /\ g_outcome = "ValueError"
           /\ g_url = NoUrl
           /\ g_calls = 0

(***************************************************************************)
(* Properties of URL building and of the shared registry.                  *)
(***************************************************************************)
Built == g_pc = "built"

\* a query value that is neither null nor empty
NonEmpty(v) == v # QNone /\ v # ""

\* some required parameter is absent from the query, or null or empty in it
RequiredMissing ==
    \E p \in g_endpoint.required_params :
       p \notin DOMAIN g_query \/ ~NonEmpty(g_query[p])

\* C12: build_url fails, returning no URL, whenever at least one required
\* parameter is absent from the query or present with a null or empty value,
\* and returns a URL whenever every required parameter has a non-empty value.
C12_FailsIffRequiredMissing ==
    Built => /\ (g_outcome = "ValueError") = RequiredMissing
             /\ (g_outcome = "url") = ~RequiredMissing

UrlNames == {g_url.query[n].name : n \in DOMAIN g_url.query}

C14_RegistryReadOnlyAfterStartup ==
    [][\A n \in DOMAIN router_routes :
          n \in DOMAIN router_routes' /\ router_routes'[n] = router_routes[n]]_vars

(***************************************************************************)
(* Properties of the comparison ne.                                        *)
(***************************************************************************)
\* the call is one of the two the contract speaks of
NeContractCall ==
    \/ n_kind = "dicts" /\ n_key = DictKey
    \/ n_kind = "plain" /\ n_key = NoneKey

\* C30: ne(data, key, i, j) returns True exactly when the elements at i and j
\* differ and gives the same answer for (j, i), so ne(data, key, i, i) is
\* False, for a list of dictionaries compared by their key as well as for a
\* list of plain elements with key None.
C30_NeIsSymmetricInequality ==
    (n_pc = "done" /\ NeContractCall)
        => /\ n_out = (IF At(n_data, n_i) # At(n_data, n_j) THEN "True" ELSE "False")
           /\ n_back = n_out

(***************************************************************************)
(* Properties of the order of the steps of a walk.                         *)
(***************************************************************************)
\* the record of the clip universe with this id
ClipOf(id) == CHOOSE c \in FilterUniverse : c.id = id

\* the filter and the duplicate test of the version let the record in, given
\* the clips accepted so far
Acceptable(impl, clip, acc) ==
    IF impl = "controllers"
    THEN RecordDecision(clip, acc, whitelist, blacklist) = "accept"
    ELSE PassesFilterServices(clip) /\ DedupScan(clip, acc, 1) = "new"

Holds(cs, id) == \E m \in 1..Len(cs) : cs[m].id = id

\* a page with records and an empty or absent cursor has just been received
FinalPageReceived ==
    /\ w_impl \in {"controllers", "services"}
    /\ w_requests' = w_requests + 1
    /\ ~w_last'.empty
    /\ w_last'.cursor \in {"", AbsentCursor, NullPagination}

\* C32: the records of every fetched page are parsed and filtered before the
\* stop conditions are evaluated: the lead record of the final page, the one
\* that comes with an empty or absent cursor, is among the clips of the walk
\* when the filter and the duplicate test let it in.
C32_FinalPageIsParsed ==
    [][(FinalPageReceived /\ Acceptable(w_impl, ClipOf(w_last'.lead), clips))
          => Holds(clips', w_last'.lead)]_vars

\* C33: the first page request of a walk carries no cursor, and every later
\* page request carries as `after` exactly the cursor returned by the page
\* response just before it: no cursor is sent twice in a row or skipped.
C33_CursorThreadedThrough ==
    [][(w_impl = "controllers" /\ w_requests' = w_requests + 1)
          => w_sent_after' = (IF w_requests = 0 THEN NoCursor ELSE w_last.cursor)]_vars

\* a walk of three requests, each later one with the cursor returned before it
C33_Witness ==
    /\ w_impl = "controllers"
    /\ w_requests = 3
    /\ w_sent_after \in Cursors
    /\ w_last.cursor \in Cursors
    /\ w_sent_after # w_last.cursor

(***************************************************************************)
(* Properties of the duplicate test.                                       *)
(***************************************************************************)
IsPrefix(cs, ds) ==
    /\ Len(cs) <= Len(ds)
    /\ \A m \in 1..Len(cs) : ds[m] = cs[m]

\* the record just dealt with shows a moment an accepted clip already shows
LaterCandidateOverlaps ==
    /\ f_last'.id # f_last.id
    /\ LET clip == ClipOf(f_last'.id) IN
       /\ clip.vod_offset # None
       /\ \E m \in 1..Len(f_clips) :
            f_clips[m].vod_offset # None /\ Overlaps(f_clips[m], clip)

\* C34: deduplication keeps the first encountered clip: a candidate from the
\* same video as an accepted clip, with offsets within the duration window, is
\* not accepted, and an accepted clip is never removed or replaced by a later
\* candidate.
C34_FirstEncounteredKept ==
    [][f_impl = "controllers"
          => /\ IsPrefix(f_clips, f_clips')
             /\ (LaterCandidateOverlaps => f_clips' = f_clips)]_vars

\* scenario E: the clips at offsets 10 and 12 of video v1, 5 seconds each; the
\* first was accepted and the second has just been turned down as its duplicate
C34_Witness ==
    /\ f_impl = "controllers"
    /\ f_last = [id |-> "b", decision |-> "dup"]
    /\ Len(f_clips) = 1
    /\ f_clips[1].id = "a"

(***************************************************************************)
(* Properties of the search as a whole.                                    *)
(***************************************************************************)
\* the multiset of the elements of a list
BagOf(d) ==
    [e \in {d[p] : p \in 1..Len(d)} |-> Cardinality({p \in 1..Len(d) : d[p] = e})]

\* C35: at every step of the search, and after any call of dfs or rearrange,
\* successful or not, the list holds exactly the multiset of clips of the
\* input: elements are swapped, never lost, duplicated or replaced.
C35_SameMultisetThroughout ==
    BagOf(data) = BagOf(input)

\* in the middle of a search, with a swap in place
C35_Witness ==
    /\ r_pc = "run"
    /\ data # input
    /\ Len(stack) >= 2

\* every frame of the call stack is one index further than its caller, no call
\* is made with an index past the end of the list (the first call on an empty
\* list apart) and no loop index is past that end
StackBounded ==
    /\ \A m \in 1..Len(stack) :
         /\ stack[m].i = start + m - 1
         /\ stack[m].i <= Max(Len(data), start)
         /\ stack[m].j <= Max(Len(data), stack[m].i + 1)

RECURSIVE Pow2(_)
Pow2(k) == IF k = 0 THEN 1 ELSE 2 * Pow2(k - 1)

\* every HTTP call after the first is a retry
Retries == IF x_calls = 0 THEN 0 ELSE x_calls - 1

\* C36: every retry is preceded by exactly one sleep, and the sleep before
\* retry number k (k = 0, 1, 2) lasts backoff * 2^k (0.5 s, 1 s, 2 s) plus a
\* jitter between 0 and the configured jitter.
C36_SleepDoublesBeforeEachRetry ==
    /\ Len(x_sleeps) = Retries
    /\ \A k \in 0..(Len(x_sleeps) - 1) :
         x_sleeps[k + 1] - backoff * Pow2(k) \in 0..jitter

\* a request that was retried three times
C36_Witness ==
    /\ x_pc = "done"
    /\ x_calls = 4
    /\ Len(x_sleeps) = 3

(***************************************************************************)
(* Properties of the trailing-slash policy of the router.                  *)
(***************************************************************************)
\* the string Router.route returned ends with a slash: one was appended, or
\* the URL built by the endpoint ends with one more than was cut
ReturnedEndsWithSlash ==
    \/ g_appended
    \/ UrlTrailingSlashes(g_url) - (IF g_stripped THEN 1 ELSE 0) >= 1

\* C37: the policy chosen when the Router is constructed applies to every URL
\* route returns: constructed with trailing_slash=False no returned URL ends
\* with "/", constructed with trailing_slash=True every returned URL does.
C37_TrailingSlashPolicyApplied ==
    (Routed /\ g_impl \in {"routing", "common"} /\ g_outcome = "url")
        => (ReturnedEndsWithSlash <=> g_trailing_slash)

(***************************************************************************)
(* Properties of the collect command line.                                 *)
(***************************************************************************)
Parsed == p_pc = "done"

\* C31: the collect sub-command requires -out/--output exactly when no
\* MONGO_DB_URI is configured: with the variable unset, an empty argument list
\* exits with code 2 (and every namespace that is returned has `output`); with
\* the variable set, an empty argument list is parsed and the namespace has no
\* `output` entry.
C31_OutputRequiredWithoutDatabase ==
    /\ (Parsed /\ p_args = <<>>)
          => IF p_env = Unset
             THEN p_outcome = "SystemExit(2)"
             ELSE p_outcome = "namespace" /\ ~p_namespace.has_output
    /\ (Parsed /\ p_env = Unset /\ p_outcome = "namespace") => p_namespace.has_output

\* the empty argument list was parsed with the variable set
C31_Witness ==
    /\ Parsed
    /\ p_args = <<>>
    /\ p_env = "mongodb://localhost:27017"
    /\ p_outcome = "namespace"

(***************************************************************************)
(* Properties of the database context manager.                             *)
(***************************************************************************)
\* C39: every entry into the MongoDB context manager yields a connected
\* instance, also an entry made after an earlier with block on the same
\* singleton has exited and disconnected its client.
C39_EveryEntryYieldsConnected ==
    m_entries >= 1 => m_yielded = "open"

(***************************************************************************)
(* Properties of default_kwargs.                                           *)
(***************************************************************************)
\* C40: each call of a function wrapped with default_kwargs(**defaults)
\* receives the declared defaults overridden by the keyword arguments of that
\* call only: a keyword passed in one call does not change what a later call
\* that omits it receives.
C40_DefaultsNotCarriedOver ==
    k_calls >= 1 => k_received = Update(declared_defaults, k_kwargs)

=============================================================================
